---- MODULE Spec2Model ----
(***************************************************************************)
(* Model of src/main/linux-accent-color.js: the accent colour dispatcher   *)
(* getLinuxAccentColor with its module-level memo usedStrategyIndex, the   *)
(* three strategies and the close handler of runCommandHelper.             *)
(*                                                                         *)
(* Text is modelled as a sequence of lexemes (a keyword, a run of white    *)
(* space, a run of decimal digits, a punctuation character), so that the   *)
(* regular expressions and parseFloat are computed on the text and not     *)
(* assumed.  A number is an exact fraction [num, den]; with at most two    *)
(* fractional digits the product value * 255 is an integer or at least     *)
(* 0.05 away from one, so the IEEE-754 product floors to the same integer. *)
(***************************************************************************)
EXTENDS Integers, Sequences, FiniteSets, TLC

\* ---------------------------------------------------------------- bounds
\* Number of getLinuxAccentColor calls issued during a run.
MaxCalls == 3
\* Largest number of items (tokens) in a portal reply of InitPortal.
MaxItems == 4
\* Largest number of '-<word>' suffixes of a setting value of SettingTexts.
MaxSuffixes == 2
\* Largest number of 'data' events on stdout, and on stderr, of a child.
MaxChunks == 2
\* Largest number of getLinuxAccentColor calls where fairness is stated.
MaxLive == 2

Calls == 1..MaxCalls

\* ---------------------------------------------------------------- values
NULL == "null"
Undefined == [type |-> "undefined", value |-> 0]
Number(n) == [type |-> "number", value |-> n]
JsNull == [type |-> "null", value |-> 0]
typeof(v) == v.type

Lx(t) == [t |-> t, d |-> <<>>]
Dg(d) == [t |-> "digits", d |-> d]
WS == Lx("ws")

IsSpace(l) == l.t = "ws"

RECURSIVE trimStart(_)
trimStart(s) ==
  IF s # <<>> /\ IsSpace(Head(s)) THEN trimStart(Tail(s)) ELSE s

RECURSIVE trimEnd(_)
trimEnd(s) ==
  IF s # <<>> /\ IsSpace(s[Len(s)]) THEN trimEnd(SubSeq(s, 1, Len(s) - 1)) ELSE s

\* String.prototype.trim
trim(s) == trimEnd(trimStart(s))

\* ------------------------------------------------------- xdgDesktopPortal
\* Length of the match of /double\s+(\d+(?:[,.]\d+)?)/ starting at lexeme p
\* of s, 0 when there is none.  The optional group is greedy.
MatchLenAt(s, p) ==
  IF /\ p + 2 <= Len(s)
     /\ s[p].t = "double"
     /\ s[p + 1].t = "ws"
     /\ s[p + 2].t = "digits"
  THEN IF /\ p + 4 <= Len(s)
          /\ s[p + 3].t \in {",", "."}
          /\ s[p + 4].t = "digits"
       THEN 5
       ELSE 3
  ELSE 0

\* [...s.matchAll(re)] : the capture group match[1] of every match, scanning
\* left to right and resuming after each match.
RECURSIVE matchAllFrom(_, _)
matchAllFrom(s, p) ==
  IF p > Len(s) THEN <<>>
  ELSE LET n == MatchLenAt(s, p)
       IN IF n = 0 THEN matchAllFrom(s, p + 1)
          ELSE <<SubSeq(s, p + 2, p + n - 1)>> \o matchAllFrom(s, p + n)

matchAll(s) == matchAllFrom(s, 1)

RECURSIVE DigitsValue(_)
DigitsValue(d) ==
  IF d = <<>> THEN 0 ELSE 10 * DigitsValue(SubSeq(d, 1, Len(d) - 1)) + d[Len(d)]

RECURSIVE Pow10(_)
Pow10(k) == IF k = 0 THEN 1 ELSE 10 * Pow10(k - 1)

\* parseFloat of a captured text: digits, then a fraction only behind a '.';
\* parsing stops at any other character, so it stops at a ','.
parseFloat(m) ==
  IF Len(m) >= 3 /\ m[2].t = "." /\ m[3].t = "digits"
  THEN [num |-> DigitsValue(m[1].d) * Pow10(Len(m[3].d)) + DigitsValue(m[3].d),
        den |-> Pow10(Len(m[3].d))]
  ELSE [num |-> DigitsValue(m[1].d), den |-> 1]

HexDigits == <<"0", "1", "2", "3", "4", "5", "6", "7",
               "8", "9", "a", "b", "c", "d", "e", "f">>

\* Number.prototype.toString(16) of a non-negative integer
RECURSIVE toString16(_)
toString16(n) ==
  IF n < 16 THEN HexDigits[n + 1]
  ELSE toString16(n \div 16) \o HexDigits[(n % 16) + 1]

\* String.prototype.padStart(len, '0')
RECURSIVE padStart(_, _)
padStart(s, len) == IF Len(s) >= len THEN s ELSE padStart("0" \o s, len)

\* value < 0.0 || value > 1.0
OutOfRange(value) == value.num < 0 \/ value.num > value.den

\* Mutant of HexByte: Math.round in the place of Math.floor.
HexByteRound(value) ==
  padStart(toString16((2 * value.num * 255 + value.den) \div (2 * value.den)), 2)

\* Math.floor(value * 255).toString(16).padStart(2, '0')
HexByte(value) == padStart(toString16((value.num * 255) \div value.den), 2)

\* The loop of lines 82-95 over the matches from index k on, hex so far h.
RECURSIVE PortalLoop(_, _, _)
PortalLoop(matches, k, h) ==
  IF k > Len(matches) THEN h
  ELSE LET value == parseFloat(matches[k])
       IN IF OutOfRange(value) THEN NULL
          ELSE PortalLoop(matches, k + 1, h \o HexByte(value))

\* Mutant of xdgDesktopPortal: the test of line 78 written matches.length < 3.
xdgDesktopPortalAtLeast3(output) ==
  LET matches == matchAll(trim(output))
  IN IF Len(matches) < 3 THEN NULL ELSE PortalLoop(matches, 1, "#")

\* xdgDesktopPortal, from the output of dbus-send on
xdgDesktopPortal(output) ==
  LET matches == matchAll(trim(output))
  IN IF Len(matches) # 3 THEN NULL ELSE PortalLoop(matches, 1, "#")

\* ----------------------------------------------------------------- ubuntu
Quote == Lx("'")
Dash == Lx("-")

YaruVariants ==
  {"bark", "sage", "olive", "viridian", "prussiangreen",
   "blue", "purple", "magenta", "red"}

\* The text 'Yaru[-<variant>][-dark]'; variant "undefined" is an absent group.
YaruText(variant, dark) ==
  <<Quote, Lx("Yaru")>>
    \o (IF variant = "undefined" THEN <<>> ELSE <<Dash, Lx(variant)>>)
    \o (IF dark THEN <<Dash, Lx("dark")>> ELSE <<>>)
    \o <<Quote>>

\* Mutant of YaruMatch: the pattern without its (?:-dark)? group.
YaruMatchNoDark(s) ==
  {v \in YaruVariants \cup {"undefined"} : YaruText(v, FALSE) = s}

\* match[1] of /^'Yaru(?:-(bark|...|red))?(?:-dark)?'$/ on s, for every way
\* the expression matches the whole of s (none: the empty set).
YaruMatch(s) ==
  {v \in YaruVariants \cup {"undefined"} :
     \E dark \in BOOLEAN : YaruText(v, dark) = s}

\* the switch of lines 113-136
YaruColor(group) ==
  CASE group = "undefined" -> "#e95420"
    [] group = "bark" -> "#787859"
    [] group = "sage" -> "#657b69"
    [] group = "olive" -> "#4b8501"
    [] group = "viridian" -> "#03875b"
    [] group = "prussiangreen" -> "#308280"
    [] group = "blue" -> "#0073e5"
    [] group = "purple" -> "#7764d8"
    [] group = "magenta" -> "#b34bc3"
    [] group = "red" -> "#da3450"
    [] OTHER -> NULL

\* ubuntu, from the output of gsettings on
ubuntu(output) ==
  LET match == YaruMatch(trim(output))
  IN IF match = {} THEN NULL ELSE YaruColor(CHOOSE v \in match : TRUE)

\* ------------------------------------------ gnomeCustomAccentColorExtension
ExtensionNames ==
  {"green", "yellow", "orange", "red", "pink", "purple", "brown"}

\* Mutant of ExtensionMatch: the pattern given the (?:-dark)? group of ubuntu.
ExtensionMatchDark(s) ==
  {n \in ExtensionNames :
     \/ <<Quote, Lx(n), Quote>> = s
     \/ <<Quote, Lx(n), Dash, Lx("dark"), Quote>> = s}

\* match[1] of /^'(green|yellow|orange|red|pink|purple|brown)'$/ on s
ExtensionMatch(s) ==
  {n \in ExtensionNames : <<Quote, Lx(n), Quote>> = s}

\* the switch of lines 152-169
ExtensionColor(group) ==
  CASE group = "green" -> "#2ec27e"
    [] group = "yellow" -> "#f5c211"
    [] group = "orange" -> "#e66100"
    [] group = "red" -> "#c01c28"
    [] group = "pink" -> "#dc8add"
    [] group = "purple" -> "#813d9c"
    [] group = "brown" -> "#865e3c"
    [] OTHER -> NULL

\* gnomeCustomAccentColorExtension, from the output of gsettings on
gnomeCustomAccentColorExtension(output) ==
  LET match == ExtensionMatch(trim(output))
  IN IF match = {} THEN NULL ELSE ExtensionColor(CHOOSE n \in match : TRUE)

\* ------------------------------------------------------- runCommandHelper
\* What a child process has delivered when it closes: the launch error (NULL
\* when it was launched), its exit code, and the stdout and stderr text.
Outcome(error, exitCode, output, errorOutput) ==
  [error |-> error, exitCode |-> exitCode, output |-> output,
   errorOutput |-> errorOutput]

\* child.exitCode is a number once the process has exited by itself and null
\* before, or when a signal ended it; a failed launch leaves the errno in it.
LaunchFailure == Outcome("ENOENT", Number(-2), <<>>, "")
NonZeroExit == Outcome(NULL, Number(1), <<>>, "failed")
Exit0(output) == Outcome(NULL, Number(0), output, "")

\* ${child.exitCode} in the template of line 204
TemplateText(v) == IF typeof(v) = "number" THEN ToString(v.value) ELSE "null"

\* Mutant of runCommandHelper: line 202 written "else if (child.exitCode)".
runCommandHelperTruthy(child) ==
  IF child.error # NULL
  THEN [status |-> "rejected", value |-> <<>>, reason |-> child.error]
  ELSE IF typeof(child.exitCode) = "number" /\ child.exitCode.value # 0
  THEN [status |-> "rejected", value |-> <<>>,
        reason |-> "Exit code: " \o TemplateText(child.exitCode)
                     \o ", Stderr: " \o child.errorOutput]
  ELSE [status |-> "resolved", value |-> child.output, reason |-> ""]

\* The 'close' handler: how the promise of runCommandHelper settles.
runCommandHelper(child) ==
  IF child.error # NULL
  THEN [status |-> "rejected", value |-> <<>>, reason |-> child.error]
  ELSE IF child.exitCode # Number(0)
  THEN [status |-> "rejected", value |-> <<>>,
        reason |-> "Exit code: " \o TemplateText(child.exitCode)
                     \o ", Stderr: " \o child.errorOutput]
  ELSE [status |-> "resolved", value |-> child.output, reason |-> ""]

\* The promise and the variables of one runCommandHelper call (lines 178-183),
\* with plan, what its child process is going to do, and how far it has got.
Pending == [status |-> "pending", value |-> <<>>, reason |-> ""]

Spawned(plan) ==
  [state |-> "running", plan |-> plan, sentOut |-> 0, sentErr |-> 0,
   exited |-> FALSE, errored |-> FALSE,
   error |-> NULL, output |-> <<>>, errorOutput |-> "", exitCode |-> JsNull,
   promise |-> Pending, settled |-> 0]

\* resolve or reject: only the first one settles the promise
Settle(p, s) ==
  [p EXCEPT !.promise = IF @.status = "pending" THEN s ELSE @,
            !.settled = @ + 1]

\* lines 186-188
OnStdoutData(p, data) == [p EXCEPT !.output = @ \o data]

\* lines 191-193
OnStderrData(p, data) == [p EXCEPT !.errorOutput = @ \o data]

\* Mutant of OnError: the handler rejects at once.
OnErrorRejects(p, err) ==
  Settle([p EXCEPT !.error = err],
         [status |-> "rejected", value |-> <<>>, reason |-> err])

\* lines 195-197
OnError(p, err) == [p EXCEPT !.error = err]

\* lines 199-208
OnClose(p) ==
  Settle(p, runCommandHelper(Outcome(p.error, p.exitCode, p.output, p.errorOutput)))

\* ------------------------------------------------------------- strategies
strategies == <<"xdgDesktopPortal", "ubuntu", "gnomeCustomAccentColorExtension">>

\* JavaScript indexes of strategies
Indexes == 0..(Len(strategies) - 1)

Parse(name, output) ==
  CASE name = "xdgDesktopPortal" -> xdgDesktopPortal(output)
    [] name = "ubuntu" -> ubuntu(output)
    [] name = "gnomeCustomAccentColorExtension" ->
         gnomeCustomAccentColorExtension(output)

\* await strategies[i]() once its command has closed with child: the awaited
\* promise rejects when runCommandHelper rejects (no strategy catches), and
\* otherwise resolves with what the strategy makes of the output.
StrategyResult(i, child) ==
  LET settled == runCommandHelper(child)
  IN IF settled.status = "rejected"
     THEN [threw |-> TRUE, value |-> NULL, reason |-> settled.reason]
     ELSE [threw |-> FALSE, value |-> Parse(strategies[i + 1], settled.value),
           reason |-> ""]

\* ------------------------------------------------------------ environment
\* The text of a number: digits, optionally a separator and more digits.
Numeral(int, sep, frac) ==
  <<Dg(int)>> \o (IF sep = "" THEN <<>> ELSE <<Lx(sep), Dg(frac)>>)

\* One item of a dbus-send reply: "double <numeral>".
Double(numeral) == <<Lx("double"), WS>> \o numeral

\* The numerals replies are built from.
Numerals ==
  {Numeral(<<0>>, ".", <<9, 2>>), Numeral(<<0>>, ".", <<0, 2>>),
   Numeral(<<1>>, "", <<>>), Numeral(<<1>>, ".", <<5>>),
   Numeral(<<0>>, ",", <<5>>), Numeral(<<1>>, ",", <<5>>),
   Numeral(<<0>>, ".", <<3, 3>>), Numeral(<<0>>, ".", <<1, 3>>)}

\* The items of a reply: a "double <numeral>" or another typed value.
PortalItems ==
  {Double(n) : n \in Numerals} \cup {<<Lx("uint32"), WS, Dg(<<5>>)>>}

RECURSIVE Join(_)
Join(items) ==
  IF items = <<>> THEN <<>> ELSE <<WS>> \o Head(items) \o Join(Tail(items))

\* A reply as dbus-send prints it: the items, white space around each.
Reply(items) == Join(items) \o <<WS>>

\* What each command prints in the runs of Init: a text the strategy accepts
\* and texts it does not (for the portal: too few tokens, a value out of range).
Outputs(i) ==
  CASE i = 0 ->
         {Reply(<<Double(Numeral(<<0>>, ".", <<9, 2>>)),
                  Double(Numeral(<<0>>, ".", <<0, 2>>)),
                  Double(Numeral(<<1>>, "", <<>>))>>),
          Reply(<<Double(Numeral(<<0>>, ".", <<9, 2>>)),
                  Double(Numeral(<<0>>, ".", <<0, 2>>))>>),
          Reply(<<Double(Numeral(<<0>>, ".", <<9, 2>>)),
                  Double(Numeral(<<0>>, ".", <<0, 2>>)),
                  Double(Numeral(<<1>>, ".", <<5>>))>>)}
    [] i = 1 ->
         {YaruText("purple", TRUE) \o <<WS>>,
          <<Quote, Lx("Adwaita"), Quote, WS>>}
    [] i = 2 ->
         {<<Quote, Lx("brown"), Quote, WS>>,
          <<Quote, Lx("unknown"), Quote, WS>>}

\* How the command of strategy i can end.
Outcomes(i) == {LaunchFailure, NonZeroExit} \cup {Exit0(o) : o \in Outputs(i)}

\* ------------------------------------------------------------------ state
VARIABLES
  usedStrategyIndex,  \* the module-level memo (line 15)
  calls,              \* every getLinuxAccentColor call: where it stands
  children,           \* the child processes that are running
  env,                \* per strategy, how its command can end when probed
  writes,             \* history: every assignment to usedStrategyIndex
  proc                \* one runCommandHelper call, event by event (SpecRun)

vars == <<usedStrategyIndex, calls, children, env, writes, proc>>

NoResult == [threw |-> FALSE, value |-> NULL, reason |-> ""]
NoProbe == [strategy |-> -1, child |-> Exit0(<<>>), result |-> NoResult]

\* A call that has not been issued.  phase is the branch the call took,
\* invoked the strategies it has invoked in order, last its last finished
\* probe, seen the number of assignments made before the call started.
IdleCall ==
  [pc |-> "idle", phase |-> "none", i |-> -1, invoked |-> <<>>,
   last |-> NoProbe, value |-> NULL, reason |-> "", seen |-> 0]

Unstable == [i \in Indexes |-> Outcomes(i)]

Stable(f) == [i \in Indexes |-> {f[i]}]

\* No runCommandHelper call is followed event by event.
NoProc == [Spawned([launchError |-> NULL, stdout |-> <<>>, stderr |-> <<>>,
                    exitCode |-> Number(0)]) EXCEPT !.state = "none"]

InitDispatcher ==
  /\ usedStrategyIndex = Undefined
  /\ calls = [c \in Calls |-> IdleCall]
  /\ children = {}
  /\ writes = <<>>

InitProgram ==
  /\ InitDispatcher
  /\ proc = NoProc

Init ==
  /\ InitProgram
  /\ env = Unstable

\* strategies[i](): runCommandHelper spawns the command at once.
Spawn(c, i) == children \cup {[call |-> c, strategy |-> i]}

\* lines 26-40: the synchronous start of a call, up to its first await
getLinuxAccentColor(c) ==
  /\ calls[c].pc = "idle"
  /\ c > 1 => calls[c - 1].pc # "idle"
  /\ IF typeof(usedStrategyIndex) = "number"
     THEN IF usedStrategyIndex.value = -1
          THEN /\ calls' = [calls EXCEPT ![c] =
                   [IdleCall EXCEPT !.pc = "returned", !.phase = "exhausted",
                                    !.value = NULL, !.seen = Len(writes)]]
               /\ UNCHANGED children
          ELSE /\ calls' = [calls EXCEPT ![c] =
                   [IdleCall EXCEPT !.pc = "awaiting", !.phase = "memoized",
                                    !.i = usedStrategyIndex.value,
                                    !.invoked = <<usedStrategyIndex.value>>,
                                    !.seen = Len(writes)]]
               /\ children' = Spawn(c, usedStrategyIndex.value)
     ELSE /\ calls' = [calls EXCEPT ![c] =
              [IdleCall EXCEPT !.pc = "awaiting", !.phase = "discovery",
                               !.i = 0, !.invoked = <<0>>,
                               !.seen = Len(writes)]]
          /\ children' = Spawn(c, 0)
  /\ UNCHANGED <<usedStrategyIndex, env, writes, proc>>

\* Mutant of MemoizedBranch: the memoized probe wrapped in the same empty catch
\* as the loop, so that a failure comes back as null.
MemoizedBranchCatch(r) == "return"

\* Mutant of MemoizedBranch: a null result treated as in the loop, the call
\* going on to the next strategy.
MemoizedBranchFallback(r) ==
  IF r.threw THEN "throw"
  ELSE IF r.value # NULL THEN "return" ELSE "continue"

\* line 30, return await strategies[usedStrategyIndex](): what the call does
\* with the result r
MemoizedBranch(r) == IF r.threw THEN "throw" ELSE "return"

\* Mutant of LoopBody: the return of line 46 left out.
LoopBodyNoReturn(r) == "continue"

\* Mutant of LoopBody: the try/catch of lines 41 and 48 left out.
LoopBodyNoCatch(r) ==
  IF r.threw THEN "throw"
  ELSE IF r.value # NULL THEN "return" ELSE "continue"

\* lines 41-48, the body of the loop: what the call does with the result r
LoopBody(r) ==
  IF r.threw THEN "continue"
  ELSE IF r.value # NULL THEN "return" ELSE "continue"

\* Mutant of Assign: the index before the winning one is remembered.
AssignPrevious(c, n) ==
  /\ usedStrategyIndex' = Number(IF n > 0 THEN n - 1 ELSE n)
  /\ writes' = Append(writes, [by |-> c, value |-> Number(IF n > 0 THEN n - 1 ELSE n)])

\* Mutant of Assign: a guard, so that only the first call to end assigns.
AssignIfUndefined(c, n) ==
  IF typeof(usedStrategyIndex) = "number"
  THEN UNCHANGED <<usedStrategyIndex, writes>>
  ELSE /\ usedStrategyIndex' = Number(n)
       /\ writes' = Append(writes, [by |-> c, value |-> Number(n)])

\* Mutant of Assign: the assignment of line 54 left out.
AssignOnlyWinner(c, n) ==
  IF n = -1 THEN UNCHANGED <<usedStrategyIndex, writes>>
  ELSE /\ usedStrategyIndex' = Number(n)
       /\ writes' = Append(writes, [by |-> c, value |-> Number(n)])

\* line 45 and line 54: the assignment to usedStrategyIndex by call c
Assign(c, n) ==
  /\ usedStrategyIndex' = Number(n)
  /\ writes' = Append(writes, [by |-> c, value |-> Number(n)])

\* Mutant of NextIndex: the i++ of the loop left out.
NextIndexStay(i) == i

\* line 40, i++
NextIndex(i) == i + 1

\* The child ch of call c closes having delivered child: the promise of
\* runCommandHelper settles and the call runs on to its next await or its end.
Resume(c, ch, child) ==
  LET r == StrategyResult(ch.strategy, child)
      i == calls[c].i
      done == [calls[c] EXCEPT
                 !.last = [strategy |-> ch.strategy, child |-> child, result |-> r]]
      does == IF calls[c].phase = "memoized" THEN MemoizedBranch(r) ELSE LoopBody(r)
  IN CASE does = "throw" ->
            /\ calls' = [calls EXCEPT ![c] =
                 [done EXCEPT !.pc = "rejected", !.reason = r.reason]]
            /\ children' = children \ {ch}
            /\ UNCHANGED <<usedStrategyIndex, writes>>
       [] does = "return" /\ calls[c].phase = "memoized" ->
            /\ calls' = [calls EXCEPT ![c] =
                 [done EXCEPT !.pc = "returned", !.value = r.value]]
            /\ children' = children \ {ch}
            /\ UNCHANGED <<usedStrategyIndex, writes>>
       [] does = "return" /\ calls[c].phase # "memoized" ->
            /\ Assign(c, i)
            /\ calls' = [calls EXCEPT ![c] =
                 [done EXCEPT !.pc = "returned", !.value = r.value]]
            /\ children' = children \ {ch}
       [] does = "continue" /\ NextIndex(i) < Len(strategies) ->
            /\ calls' = [calls EXCEPT ![c] =
                 [done EXCEPT !.i = NextIndex(i),
                              !.invoked = Append(@, NextIndex(i))]]
            /\ children' = Spawn(c, NextIndex(i)) \ {ch}
            /\ UNCHANGED <<usedStrategyIndex, writes>>
       [] OTHER ->
            /\ Assign(c, -1)
            /\ calls' = [calls EXCEPT ![c] =
                 [done EXCEPT !.pc = "returned", !.value = NULL]]
            /\ children' = children \ {ch}

\* 'close' of a running child process, with one of the ends env allows
Close(c) ==
  /\ calls[c].pc = "awaiting"
  /\ \E ch \in {x \in children : x.call = c} :
       \E child \in env[ch.strategy] :
         Resume(c, ch, child)
  /\ UNCHANGED <<env, proc>>

Next == \E c \in Calls : getLinuxAccentColor(c) \/ Close(c)

Spec == Init /\ [][Next]_vars

NextLive == \E c \in 1..MaxLive : getLinuxAccentColor(c) \/ Close(c)

\* Overlapping calls, every process that was spawned closing in the end.
SpecLive ==
  Init /\ [][NextLive]_vars /\ \A c \in 1..MaxLive : WF_vars(Close(c))

\* A stable environment: every command ends the same way each time.
StableChoices ==
  {f \in [Indexes -> UNION {Outcomes(i) : i \in Indexes}] :
     \A i \in Indexes : f[i] \in Outcomes(i)}

InitStable ==
  /\ InitProgram
  /\ env \in {Stable(f) : f \in StableChoices}

\* Overlapping calls in a stable environment.
SpecStableConc == InitStable /\ [][Next]_vars

\* A call issued when no other call is in flight.
SeqCall(c) ==
  /\ \A d \in Calls : calls[d].pc # "awaiting"
  /\ getLinuxAccentColor(c)

NextSeq == \E c \in Calls : SeqCall(c) \/ Close(c)

\* Sequential calls in a stable environment.
SpecStable == InitStable /\ [][NextSeq]_vars

\* Sequential calls, every probe ending in any of the ways of Outcomes.
SpecSeq == Init /\ [][NextSeq]_vars

\* The replies of at most MaxItems items.
Replies ==
  {Reply(items) : items \in UNION {[1..n -> PortalItems] : n \in 0..MaxItems}}

\* The portal answers with one fixed reply, the two gsettings commands are
\* not installed.
InitPortal ==
  /\ InitProgram
  /\ \E reply \in Replies :
       env = [i \in Indexes |->
                IF i = 0 THEN {Exit0(reply)} ELSE {LaunchFailure}]

\* xdgDesktopPortal applied to every reply of Replies.
SpecPortal == InitPortal /\ [][NextSeq]_vars

\* The text <head>-<word>-...-<word>
RECURSIVE Suffixed(_, _)
Suffixed(head, words) ==
  IF words = <<>> THEN <<Lx(head)>>
  ELSE Suffixed(head, SubSeq(words, 1, Len(words) - 1))
         \o <<Dash, Lx(words[Len(words)])>>

\* What gsettings get prints for a string value: the value, in quotes when
\* quoted, and a newline.
Printed(quoted, value) ==
  IF quoted THEN <<Quote>> \o value \o <<Quote, WS>> ELSE value \o <<WS>>

\* The printed values with a head of heads and at most MaxSuffixes suffixes
\* of words.
SettingTexts(heads, words) ==
  {Printed(q, Suffixed(h, ws)) :
     q \in BOOLEAN, h \in heads,
     ws \in UNION {[1..n -> words] : n \in 0..MaxSuffixes}}

\* Only the command of strategy i is installed, and prints text.
OnlyStrategy(i, text) ==
  [j \in Indexes |-> IF j = i THEN {Exit0(text)} ELSE {LaunchFailure}]

InitTheme ==
  /\ InitProgram
  /\ \E text \in SettingTexts({"Yaru", "Adwaita"},
                                YaruVariants \cup {"dark", "teal"}) :
       env = OnlyStrategy(1, text)

\* ubuntu applied to every gtk-theme value of InitTheme.
SpecTheme == InitTheme /\ [][NextSeq]_vars

InitExtension ==
  /\ InitProgram
  /\ \E text \in SettingTexts(ExtensionNames \cup {"unknown", "blue"}, {"dark"}) :
       env = OnlyStrategy(2, text)

\* gnomeCustomAccentColorExtension applied to every value of InitExtension.
SpecExtension == InitExtension /\ [][NextSeq]_vars

\* ------------------------------------------- runCommandHelper, by events
StdoutChunks == {<<Quote, Lx("brown")>>, <<Quote, WS>>}
StderrChunks == {"warning;", "failed;"}

ChunkSeqs(chunks) == UNION {[1..n -> chunks] : n \in 0..MaxChunks}

\* What a child process can do: fail to launch (no output, then), or write
\* chunks to stdout and stderr and end with an exit code or by a signal.
Plans ==
  {[launchError |-> "ENOENT", stdout |-> <<>>, stderr |-> <<>>,
    exitCode |-> Number(-2)]}
  \cup
  {[launchError |-> NULL, stdout |-> out, stderr |-> err, exitCode |-> code] :
     out \in ChunkSeqs(StdoutChunks), err \in ChunkSeqs(StderrChunks),
     code \in {Number(0), Number(1), JsNull}}

\* Right after runCommandHelper has spawned the child and set its handlers.
InitRun ==
  /\ InitDispatcher
  /\ env = Unstable
  /\ proc \in {Spawned(plan) : plan \in Plans}

Dispatcher == <<usedStrategyIndex, calls, children, env, writes>>

\* 'data' on child.stdout: the next chunk the process wrote
StdoutData ==
  /\ proc.state = "running"
  /\ proc.sentOut < Len(proc.plan.stdout)
  /\ proc' = [OnStdoutData(proc, proc.plan.stdout[proc.sentOut + 1])
                EXCEPT !.sentOut = @ + 1]
  /\ UNCHANGED Dispatcher

\* 'data' on child.stderr
StderrData ==
  /\ proc.state = "running"
  /\ proc.sentErr < Len(proc.plan.stderr)
  /\ proc' = [OnStderrData(proc, proc.plan.stderr[proc.sentErr + 1])
                EXCEPT !.sentErr = @ + 1]
  /\ UNCHANGED Dispatcher

\* 'error': the process could not be launched
ErrorEvent ==
  /\ proc.state = "running"
  /\ proc.plan.launchError # NULL
  /\ ~proc.errored
  /\ proc' = [OnError([proc EXCEPT !.exitCode = proc.plan.exitCode],
                      proc.plan.launchError)
                EXCEPT !.errored = TRUE]
  /\ UNCHANGED Dispatcher

\* 'exit' (no handler): child.exitCode is set, null when a signal ended it
ExitEvent ==
  /\ proc.state = "running"
  /\ proc.plan.launchError = NULL
  /\ ~proc.exited
  /\ proc' = [proc EXCEPT !.exited = TRUE, !.exitCode = proc.plan.exitCode]
  /\ UNCHANGED Dispatcher

\* 'close': emitted once, after the process ended (or failed to launch) and
\* both streams were read to their end
CloseEvent ==
  /\ proc.state = "running"
  /\ proc.exited \/ proc.errored
  /\ proc.sentOut = Len(proc.plan.stdout)
  /\ proc.sentErr = Len(proc.plan.stderr)
  /\ proc' = [OnClose(proc) EXCEPT !.state = "closed"]
  /\ UNCHANGED Dispatcher

NextRun == StdoutData \/ StderrData \/ ErrorEvent \/ ExitEvent \/ CloseEvent

\* One runCommandHelper call, event by event.
SpecRun == InitRun /\ [][NextRun]_vars

\* The same, the event loop delivering every event that is due.
SpecRunLive == InitRun /\ [][NextRun]_vars /\ WF_vars(NextRun)

\* ----------------------------------------------------------------- claims
Started == {c \in Calls : calls[c].pc # "idle"}
Discovering == {c \in Calls : calls[c].phase = "discovery"}
Memoized == {c \in Calls : calls[c].phase = "memoized"}
ChildrenOf(c) == {x \in children : x.call = c}
Finished(c) == calls[c].last.strategy # -1
Failed(child) == child.error # NULL \/ child.exitCode # Number(0)

\* The values usedStrategyIndex had taken when call c started, Undefined aside.
SeenBefore(c) == {writes[k].value : k \in 1..calls[c].seen}

\* C1: usedStrategyIndex changes value at most once, from undefined to one
\* number (an index or -1), and never takes a different value afterwards, under
\* any interleaving of calls and any outcomes of the probes.
C1_ChangesAtMostOnce ==
  /\ Cardinality({writes[k].value : k \in DOMAIN writes}) <= 1
  /\ writes = <<>> => usedStrategyIndex = Undefined
  /\ writes # <<>> => usedStrategyIndex = writes[1].value

\* C2: a call that starts in Unknown probes 0, 1, 2 in that order, one at a
\* time, the next only after the previous one ended in null or a failure; the
\* first strategy i with a color makes the call record i, return that color
\* and invoke nothing after i.
C2_SequentialFirstWins ==
  \A c \in Discovering :
    LET call == calls[c] IN
    /\ call.invoked = [k \in 1..(call.i + 1) |-> k - 1]
    /\ ChildrenOf(c) =
         IF call.pc = "awaiting" THEN {[call |-> c, strategy |-> call.i]} ELSE {}
    /\ call.pc = "awaiting" /\ call.i > 0 =>
         /\ call.last.strategy = call.i - 1
         /\ call.last.result.threw \/ call.last.result.value = NULL
    /\ Finished(c) /\ ~Failed(call.last.child)
         /\ Parse(strategies[call.last.strategy + 1], call.last.child.output) # NULL =>
         /\ call.pc = "returned"
         /\ call.i = call.last.strategy
         /\ call.value =
              Parse(strategies[call.i + 1], call.last.child.output)
         /\ \E k \in DOMAIN writes : writes[k] = [by |-> c, value |-> Number(call.i)]
    /\ call.pc = "returned" /\ call.value # NULL =>
         /\ call.last.strategy = call.i
         /\ call.value = call.last.result.value

C2_Witness ==
  \E c \in Discovering :
    /\ calls[c].pc = "returned"
    /\ calls[c].value = "#7764d8"
    /\ calls[c].invoked = <<0, 1>>

\* C3: a call that starts in Unknown never rejects; a launch failure or a
\* non-zero exit of a strategy's command is treated like null and the call goes
\* on to the next strategy (or, after the last one, returns null).
C3_DiscoveryNeverRejects ==
  \A c \in Discovering :
    LET call == calls[c] IN
    /\ call.pc # "rejected"
    /\ Finished(c) /\ Failed(call.last.child) =>
         \/ /\ call.pc = "awaiting"
            /\ call.i = call.last.strategy + 1
         \/ /\ call.pc = "returned"
            /\ call.value = NULL
            /\ call.last.strategy = Len(strategies) - 1

C3_Witness ==
  \E c \in Discovering :
    /\ calls[c].pc = "awaiting"
    /\ calls[c].i = 2
    /\ calls[c].last.child = NonZeroExit

\* C4: once the state is Resolved(i), every call that starts afterwards
\* invokes strategy i exactly once and no other strategy.
C4_OnceResolvedOnlyThatStrategy ==
  \A c \in Started :
    \A v \in SeenBefore(c) :
      v.value >= 0 => calls[c].invoked = <<v.value>>

\* C5: a call that starts in Resolved(i) and whose command fails (launch
\* failure or non-zero exit) rejects with that failure; it neither returns
\* null nor tries another strategy.
C5_MemoizedFailurePropagates ==
  \A c \in Memoized :
    LET call == calls[c] IN
    Finished(c) /\ Failed(call.last.child) =>
      /\ call.pc = "rejected"
      /\ call.reason =
           IF call.last.child.error # NULL THEN call.last.child.error
           ELSE "Exit code: 1, Stderr: failed"
      /\ call.invoked = <<call.i>>
      /\ ChildrenOf(c) = {}

C5_Witness ==
  \E c \in Memoized :
    /\ calls[c].pc = "rejected"
    /\ calls[c].last.child = NonZeroExit

\* C6: once the state is Exhausted (-1), every call that starts afterwards
\* returns null without invoking any strategy or spawning any process.
C6_OnceExhaustedNoProbe ==
  \A c \in Started :
    Number(-1) \in SeenBefore(c) =>
      /\ calls[c].pc = "returned"
      /\ calls[c].value = NULL
      /\ calls[c].invoked = <<>>
      /\ ChildrenOf(c) = {}


\* C7: in a stable environment any number of sequential calls complete with
\* the same result as the first call, whatever state each one starts in.
C7_Idempotent ==
  \A c \in Calls :
    calls[c].pc \in {"returned", "rejected"} =>
      /\ calls[c].pc = calls[1].pc
      /\ calls[c].value = calls[1].value
      /\ calls[c].reason = calls[1].reason

C7_Witness ==
  /\ calls[1].phase = "discovery"
  /\ calls[1].invoked = <<0, 1>>
  /\ \E c \in Memoized : calls[c].pc = "returned" /\ calls[c].value = "#7764d8"

\* The places of a reply where a token 'double <number>' starts.
TokenStarts(s) ==
  {p \in 1..(Len(s) - 2) :
     s[p].t = "double" /\ s[p + 1].t = "ws" /\ s[p + 2].t = "digits"}

\* The number a token denotes, with '.' or ',' as its decimal separator.
Denoted(s, p) ==
  IF p + 4 <= Len(s) /\ s[p + 3].t \in {".", ","} /\ s[p + 4].t = "digits"
  THEN [num |-> DigitsValue(s[p + 2].d) * Pow10(Len(s[p + 4].d))
                  + DigitsValue(s[p + 4].d),
        den |-> Pow10(Len(s[p + 4].d))]
  ELSE [num |-> DigitsValue(s[p + 2].d), den |-> 1]

\* The k-th place of TokenStarts(s), from the left.
NthStart(s, k) ==
  CHOOSE p \in TokenStarts(s) :
    Cardinality({q \in TokenStarts(s) : q < p}) = k - 1

InRange(v) == 0 <= v.num /\ v.num <= v.den

\* floor(v * 255) as two lowercase hex digits
TwoHex(v) ==
  LET b == (v.num * 255) \div v.den
  IN HexDigits[(b \div 16) + 1] \o HexDigits[(b % 16) + 1]

\* The finished portal probes: the reply and what xdgDesktopPortal returned.
PortalProbes ==
  {calls[c].last : c \in {d \in Calls :
     /\ calls[d].last.strategy = 0
     /\ ~Failed(calls[d].last.child)}}

\* C8: the Portal strategy returns a color only when the output holds exactly
\* three 'double <number>' tokens; with fewer or more it returns null.
C8_ExactlyThreeTokens ==
  \A pr \in PortalProbes :
    Cardinality(TokenStarts(pr.child.output)) # 3 => pr.result.value = NULL

C8_Witness ==
  \E pr \in PortalProbes :
    /\ Cardinality(TokenStarts(pr.child.output)) = 4
    /\ \A p \in TokenStarts(pr.child.output) : InRange(Denoted(pr.child.output, p))
    /\ pr.result.value = NULL

\* C9: with exactly three tokens, '.' or ',' as decimal separator, a token
\* that denotes a number outside [0, 1] makes the whole probe return null.
C9_OutOfRangeIsNull ==
  \A pr \in PortalProbes :
    LET s == pr.child.output IN
    /\ Cardinality(TokenStarts(s)) = 3
    /\ \E p \in TokenStarts(s) : ~InRange(Denoted(s, p))
    => pr.result.value = NULL

\* C10: with exactly three in-range tokens v1, v2, v3 ('.' or ',' as decimal
\* separator) the result is '#' and floor(vi * 255) as two lowercase hex
\* digits each, in the order R, G, B: seven characters.
C10_HexOfFloors ==
  \A pr \in PortalProbes :
    LET s == pr.child.output IN
    /\ Cardinality(TokenStarts(s)) = 3
    /\ \A p \in TokenStarts(s) : InRange(Denoted(s, p))
    => /\ pr.result.value =
            "#" \o TwoHex(Denoted(s, NthStart(s, 1)))
                \o TwoHex(Denoted(s, NthStart(s, 2)))
                \o TwoHex(Denoted(s, NthStart(s, 3)))
       /\ Len(pr.result.value) = 7

\* The reply with the tokens 'double 0.92', 'double 0.33', 'double 0.13'.
Scenario1Reply ==
  Reply(<<Double(Numeral(<<0>>, ".", <<9, 2>>)),
          Double(Numeral(<<0>>, ".", <<3, 3>>)),
          Double(Numeral(<<0>>, ".", <<1, 3>>))>>)

Scenario1Calls ==
  {c \in Discovering :
     /\ calls[c].last.strategy = 0
     /\ calls[c].last.child = Exit0(Scenario1Reply)}

\* C11 as stated: the reply 'double 0.92', 'double 0.33', 'double 0.13' makes
\* the Portal strategy, and a call that starts in Unknown, return '#ea5521'.
C11_Scenario1AsStated ==
  \A c \in Scenario1Calls :
    /\ calls[c].last.result.value = "#ea5521"
    /\ calls[c].pc = "returned"
    /\ calls[c].value = "#ea5521"

\* C11 as amended: that reply makes the Portal strategy, and a call that
\* starts in Unknown, return '#ea5421' (floor(0.33 * 255) = 84 = 0x54).
C11_Scenario1 ==
  \A c \in Scenario1Calls :
    /\ calls[c].last.result.value = "#ea5421"
    /\ calls[c].pc = "returned"
    /\ calls[c].value = "#ea5421"

C11_Witness == \E c \in Scenario1Calls : calls[c].pc = "returned"

\* The kinds of the lexemes of a printed value, its final newline left out.
Kinds(s) == [k \in 1..(Len(s) - 1) |-> s[k].t]

\* 'Yaru[-<variant>][-dark]' as kinds; variant "none" for no variant.
ThemeForm(variant, dark) ==
  <<"'", "Yaru">>
    \o (IF variant = "none" THEN <<>> ELSE <<"-", variant>>)
    \o (IF dark THEN <<"-", "dark">> ELSE <<>>)
    \o <<"'">>

\* The color of each variant (lines 115-133).
ThemeTable ==
  [v \in YaruVariants \cup {"none"} |->
     CASE v = "none" -> "#e95420"
       [] v = "bark" -> "#787859"
       [] v = "sage" -> "#657b69"
       [] v = "olive" -> "#4b8501"
       [] v = "viridian" -> "#03875b"
       [] v = "prussiangreen" -> "#308280"
       [] v = "blue" -> "#0073e5"
       [] v = "purple" -> "#7764d8"
       [] v = "magenta" -> "#b34bc3"
       [] v = "red" -> "#da3450"]

\* The finished probes of strategy i whose command exited with 0.
ProbesOf(i) ==
  {calls[c].last : c \in {d \in Calls :
     /\ calls[d].last.strategy = i
     /\ ~Failed(calls[d].last.child)}}

\* C12: on 'Yaru[-<variant>][-dark]' the Theme-Name strategy gives #e95420
\* without a variant and the variant's one fixed color otherwise, whether or
\* not '-dark' follows; every other output gives null.
C12_ThemeMapping ==
  \A pr \in ProbesOf(1) :
    LET forms == {f \in (YaruVariants \cup {"none"}) \X BOOLEAN :
                    ThemeForm(f[1], f[2]) = Kinds(pr.child.output)}
    IN IF forms = {} THEN pr.result.value = NULL
       ELSE \A f \in forms : pr.result.value = ThemeTable[f[1]]

C12_Witness ==
  \E pr \in ProbesOf(1) :
    /\ Kinds(pr.child.output) = <<"'", "Yaru", "-", "purple", "-", "dark", "'">>
    /\ pr.result.value = "#7764d8"

\* The color of each name (lines 153-166).
ExtensionTable ==
  [n \in ExtensionNames |->
     CASE n = "green" -> "#2ec27e"
       [] n = "yellow" -> "#f5c211"
       [] n = "orange" -> "#e66100"
       [] n = "red" -> "#c01c28"
       [] n = "pink" -> "#dc8add"
       [] n = "purple" -> "#813d9c"
       [] n = "brown" -> "#865e3c"]

\* C13: the Extension strategy maps each of the seven quoted names to its one
\* fixed color (brown: #865e3c) and every other output to null, a name outside
\* the seven and a name followed by '-dark' included.
C13_ExtensionMapping ==
  \A pr \in ProbesOf(2) :
    LET names == {n \in ExtensionNames :
                    Kinds(pr.child.output) = <<"'", n, "'">>}
    IN IF names = {} THEN pr.result.value = NULL
       ELSE \A n \in names : pr.result.value = ExtensionTable[n]

C13_Witness ==
  /\ \E c \in Calls :
       /\ calls[c].last.strategy = 2
       /\ Kinds(calls[c].last.child.output) = <<"'", "brown", "'">>
       /\ calls[c].value = "#865e3c"
       /\ calls[c].pc = "returned"

\* C14: when a call that starts in Unknown sees all three strategies end in
\* null or a failure, it has probed each once, returns null and leaves the
\* state Exhausted; a call made after it invokes nothing.
C14_ExhaustedAfterAllFail ==
  \A c \in Discovering :
    LET call == calls[c] IN
    /\ call.last.strategy = Len(strategies) - 1
    /\ call.last.result.threw \/ call.last.result.value = NULL
    => /\ call.pc = "returned"
       /\ call.value = NULL
       /\ call.invoked = <<0, 1, 2>>
       /\ usedStrategyIndex = Number(-1)
       /\ \A d \in Started :
            d > c => /\ calls[d].phase = "exhausted"
                     /\ calls[d].pc = "returned"
                     /\ calls[d].value = NULL
                     /\ calls[d].invoked = <<>>
                     /\ ChildrenOf(d) = {}

C14_Witness ==
  /\ calls[1].phase = "discovery"
  /\ calls[1].pc = "returned"
  /\ calls[1].last.child = Exit0(<<Quote, Lx("unknown"), Quote, WS>>)
  /\ calls[2].pc = "returned"
  /\ calls[2].invoked = <<>>

\* The assignments to usedStrategyIndex made by call c.
WritesBy(c) == {k \in DOMAIN writes : writes[k].by = c}

\* C15: there is no single-flight guard.  Every call issued while the state is
\* Unknown, whatever other calls are in flight, runs its own discovery from
\* strategy 0 and assigns the state when it ends; so one strategy can be probed
\* by k calls and the state be written by more than one call (the witness).
C15_NoSingleFlight ==
  \A c \in Started :
    calls[c].seen = 0 =>
      /\ calls[c].phase = "discovery"
      /\ Head(calls[c].invoked) = 0
      /\ calls[c].pc = "awaiting" => ChildrenOf(c) # {}
      /\ calls[c].pc = "returned" => Cardinality(WritesBy(c)) = 1

C15_Witness ==
  \E c, d \in Discovering :
    /\ c # d
    /\ calls[c].seen = 0 /\ calls[d].seen = 0
    /\ Head(calls[c].invoked) = 0 /\ Head(calls[d].invoked) = 0
    /\ WritesBy(c) # {} /\ WritesBy(d) # {}

\* The chunks of a sequence, joined in order.
RECURSIVE Joined(_, _)
Joined(chunks, empty) ==
  IF chunks = <<>> THEN empty
  ELSE Joined(SubSeq(chunks, 1, Len(chunks) - 1), empty) \o chunks[Len(chunks)]

\* C16: runCommandHelper resolves, with the stdout chunks joined in arrival
\* order, only when the process closes without launch error and with exit
\* code 0; it rejects with the launch error when there was one, and with a
\* message carrying the exit code and the stderr text when the exit code is
\* not 0, null (a signal) included.
C16_SettlesByExit ==
  /\ proc.promise.status = "resolved" =>
       /\ proc.state = "closed"
       /\ proc.plan.launchError = NULL
       /\ proc.plan.exitCode = Number(0)
  /\ proc.state = "closed" =>
       IF proc.plan.launchError # NULL
       THEN /\ proc.promise.status = "rejected"
            /\ proc.promise.reason = proc.plan.launchError
       ELSE IF proc.plan.exitCode # Number(0)
       THEN /\ proc.promise.status = "rejected"
            /\ proc.promise.reason =
                 "Exit code: "
                   \o (IF proc.plan.exitCode = JsNull THEN "null" ELSE "1")
                   \o ", Stderr: " \o Joined(proc.plan.stderr, "")
       ELSE /\ proc.promise.status = "resolved"
            /\ proc.promise.value = Joined(proc.plan.stdout, <<>>)

C16_Witness ==
  /\ proc.state = "closed"
  /\ proc.plan.exitCode = JsNull
  /\ Len(proc.plan.stderr) = 2
  /\ proc.promise.status = "rejected"

\* C17: on every exit path the promise settles in the end, once, at 'close'
\* and not before all stdout and stderr data has been accumulated; so it does
\* after a launch failure.
C17_SettlesOnceAtClose ==
  /\ [](/\ proc.settled <= 1
        /\ proc.promise.status # "pending" =>
             /\ proc.state = "closed"
             /\ proc.settled = 1
             /\ proc.output = Joined(proc.plan.stdout, <<>>)
             /\ proc.errorOutput = Joined(proc.plan.stderr, ""))
  /\ <>(proc.promise.status # "pending")

C17_Witness ==
  /\ proc.plan.launchError # NULL
  /\ proc.errored
  /\ proc.state = "closed"
  /\ proc.promise.status = "rejected"

Completed(c) == calls[c].pc \in {"returned", "rejected"}

\* C18: a call spawns at most three processes, at most one per strategy and one
\* at a time; while the process it awaits has not closed the call neither
\* completes nor assigns usedStrategyIndex (there is no timeout); and if every
\* spawned process closes in the end, every started call completes.
C18_CompletesIfProcessesClose ==
  /\ [](\A c \in Calls :
          /\ Len(calls[c].invoked) <= Len(strategies)
          /\ \A j, k \in DOMAIN calls[c].invoked :
               j # k => calls[c].invoked[j] # calls[c].invoked[k]
          /\ Cardinality(ChildrenOf(c)) <= 1
          /\ calls[c].pc = "awaiting" <=> ChildrenOf(c) # {})
  /\ [][\A c \in Calls : \A ch \in ChildrenOf(c) :
          ch \in children' =>
            /\ calls'[c] = calls[c]
            /\ WritesBy(c)' = WritesBy(c)]_vars
  /\ \A c \in Calls : (calls[c].pc = "awaiting") ~> Completed(c)

C18_Witness ==
  \E c \in Calls :
    /\ Completed(c)
    /\ calls[c].invoked = <<0, 1, 2>>
    /\ \E d \in Calls : calls[d].pc = "awaiting" /\ WritesBy(d) = {}

\* C19: a call that starts when usedStrategyIndex is an index i probes strategy
\* i and nothing else, never assigns usedStrategyIndex, and ends with what the
\* probe gave: null returned as null (no fallback, no discovery), a failure as
\* a rejection; unless another call assigned meanwhile, usedStrategyIndex is
\* still i.
C19_MemoizedCallLeavesState ==
  \A c \in Memoized :
    /\ calls[c].seen > 0
    /\ calls[c].invoked = <<writes[calls[c].seen].value.value>>
    /\ WritesBy(c) = {}
    /\ Len(writes) = calls[c].seen =>
         usedStrategyIndex = Number(calls[c].invoked[1])
    /\ Completed(c) =>
         /\ calls[c].last.strategy = calls[c].invoked[1]
         /\ IF calls[c].last.result.threw
            THEN calls[c].pc = "rejected"
            ELSE /\ calls[c].pc = "returned"
                 /\ calls[c].value = calls[c].last.result.value

C19_Witness ==
  \E c \in Memoized :
    /\ calls[c].pc = "returned"
    /\ calls[c].value = NULL
    /\ ~calls[c].last.result.threw
    /\ ~Failed(calls[c].last.child)
    /\ usedStrategyIndex = Number(calls[c].invoked[1])

\* What strategy i yields in a stable environment.
Yield(i) == StrategyResult(i, CHOOSE child \in env[i] : TRUE)
Winners == {i \in Indexes : ~Yield(i).threw /\ Yield(i).value # NULL}
Lowest == CHOOSE i \in Winners : \A j \in Winners : i <= j

\* What one call alone leaves behind and returns.
AloneState == IF Winners = {} THEN Number(-1) ELSE Number(Lowest)
AloneValue == IF Winners = {} THEN NULL ELSE Yield(Lowest).value

\* C20: in a stable environment, under any interleaving of the calls, every
\* call that completes returns (never rejects) the value a single call alone
\* would return, and every assignment to usedStrategyIndex is of the value a
\* single call alone would leave: the lowest index that yields a color, else -1.
C20_StableSameResult ==
  /\ \A c \in Calls :
       Completed(c) => calls[c].pc = "returned" /\ calls[c].value = AloneValue
  /\ \A k \in DOMAIN writes : writes[k].value = AloneState
  /\ usedStrategyIndex \in {Undefined, AloneState}

C20_Witness ==
  /\ \A c \in Calls : Completed(c)
  /\ Winners # {} /\ Lowest > 0
  /\ usedStrategyIndex = AloneState
  /\ \E c, d \in Discovering : c # d /\ WritesBy(c) # {} /\ WritesBy(d) # {}
  /\ Memoized # {}

====
